---- MODULE Spec2Model ----
(***************************************************************************)
(* The two AutoTrader variants of ready_trader_go:                         *)
(*   policy "A" = autotrader.py   (fill-and-kill, trend adjustment,        *)
(*                                 cancel-and-unwind on a limit breach)    *)
(*   policy "B" = autotrader5.py  (good-for-day, depth-aware sizing,       *)
(*                                 clamp on a limit breach)                *)
(* Every event handler is one atomic action (the event loop delivers the   *)
(* callbacks one at a time).                                               *)
(*                                                                         *)
(* Python floats are modelled exactly: a float is the integer numerator of *)
(* a fraction over Scale.  Every float the handlers compute is a multiple  *)
(* of 1/400 (divisions by 100, by 2 and by 2 again), so the arithmetic is  *)
(* exact; prices and volumes that Python keeps as int stay plain integers. *)
(***************************************************************************)
EXTENDS Integers, Sequences, FiniteSets, TLC

\* ------------------------------------------------------------------ bounds
\* Largest order id the counter may hand out in a checked behaviour.
MaxId == 3
\* Largest reading of the event loop's clock.
MaxClock == 0

\* --------------------------------------------------------------- constants
LOT_SIZE_A == 10
LOT_SIZE_B == 20
POSITION_LIMIT == 100
TICK_SIZE_IN_CENTS == 100
\* ready_trader_go.MINIMUM_BID and ready_trader_go.MAXIMUM_ASK (2**31 - 1)
MINIMUM_BID == 1
MAXIMUM_ASK == 2147483647
MIN_BID_NEAREST_TICK ==
    ((MINIMUM_BID + TICK_SIZE_IN_CENTS) \div TICK_SIZE_IN_CENTS) * TICK_SIZE_IN_CENTS
MAX_ASK_NEAREST_TICK ==
    (MAXIMUM_ASK \div TICK_SIZE_IN_CENTS) * TICK_SIZE_IN_CENTS
\* the literal cap of autotrader5.py's order size
SIZE_CAP == 14
\* ready_trader_go.Instrument
FUTURE == 0
ETF == 1
\* ready_trader_go.Side (ASK is an alias of SELL, BID of BUY) and Lifespan
Side_SELL == "SELL"
Side_BUY == "BUY"
Side_ASK == Side_SELL
Side_BID == Side_BUY
Lifespan_FILL_AND_KILL == "FILL_AND_KILL"
Lifespan_GFD == "GOOD_FOR_DAY"

\* ------------------------------------------------------------------ floats
Scale == 100 * 2 * 2

\* float(i)
F(i) == i * Scale
\* x * i and x / k for a float x and ints i, k (exact: see the header)
FMul(x, i) == x * i
FDiv(x, k) == x \div k
\* x // k * k for a float x and an int k: Python floor division, a float
FloorToMultiple(x, k) == F((x \div (k * Scale)) * k)
\* int(x): truncation toward zero
ToInt(x) == IF x >= 0 THEN x \div Scale ELSE -((-x) \div Scale)
\* x <= c for a float x and an int c.  F(c) is not formed: TLC's integers are
\* 32 bits wide and MAX_ASK_NEAREST_TICK * Scale does not fit.
FLeInt(x, c) == (x \div Scale < c) \/ (x \div Scale = c /\ x % Scale = 0)
\* min(c, x) and max(c, x) for an int c and a float x
MinIntF(c, x) == IF FLeInt(x, c) THEN x ELSE F(c)
MaxIntF(c, x) == IF FLeInt(x, c) THEN F(c) ELSE x
\* min(c - s, x) for ints c, s and a float x; x <= c - s is decided as
\* x + s <= c so that c - s is formed only when it is the result.
MinIntLessF(c, s, x) == IF FLeInt(x + F(s), c) THEN x ELSE F(c - s)

\* ----------------------------------------------------------- order books
\* A snapshot: price and volume ladders, best level first (Python index 0 is
\* element 1).  An absent level has price 0 and volume 0.
Book(bp, bv, ap, av) ==
    [bid_prices |-> bp, bid_volumes |-> bv, ask_prices |-> ap, ask_volumes |-> av]

Books ==
    << Book(<<10000, 9900, 9800>>, <<5, 9, 9>>, <<10100, 10200, 10300>>, <<7, 9, 9>>),
       Book(<<10100, 9900, 9700>>, <<5, 9, 9>>, <<10300, 10400, 10500>>, <<7, 9, 9>>),
       Book(<<10000, 9900, 9800>>, <<20, 9, 9>>, <<10002, 10100, 10200>>, <<20, 9, 9>>),
       Book(<<0, 0, 0>>, <<0, 0, 0>>, <<0, 0, 0>>, <<0, 0, 0>>),
       Book(<<10000, 9900, 9800>>, <<12, 9, 9>>, <<0, 0, 0>>, <<0, 0, 0>>),
       Book(<<10100, 10000, 9900>>, <<5, 9, 9>>, <<10000, 10100, 10200>>, <<7, 9, 9>>),
       Book(<<10000, 9950, 9900>>, <<20, 9, 9>>, <<10100, 10150, 10200>>, <<20, 9, 9>>) >>

At(list, i) == list[i + 1]

\* --------------------------------------------------------------- variables
VARIABLES
    policy,            \* "A": autotrader.py, "B": autotrader5.py
    order_ids,         \* the value the next next(self.order_ids) returns
    bids, asks,        \* A: sets of ids;  B: dicts id -> [price, size]
    bid_id, ask_id,    \* the active slots, 0 = none
    bid_price, ask_price,   \* floats (0 until the first quote)
    position,
    order_timestamps,  \* A only: dict id -> event-loop time
    trading_volume,    \* A only: float
    price_trend,       \* A only
    clock,             \* the event loop's clock (environment)
    out,               \* commands sent by the last handler, in order
    ev,                \* the last event delivered: handler and case
    issued,            \* every id sent in InsertOrder/HedgeOrder, in order
    placed_bids, placed_asks,   \* ids ever sent in InsertOrder, per side
    cancel_requested,  \* ids ever sent in CancelOrder
    retired,           \* issued ids a terminal status or error arrived for
    live,              \* the venue's book of the controller's orders: id ->
                       \* unfilled remainder (kept under the venue specifications)
    net_filled         \* bid volume less ask volume the venue has filled (same)

ctrl == <<order_ids, bids, asks, bid_id, ask_id, bid_price, ask_price,
          position, order_timestamps, trading_volume, price_trend>>
ghost == <<issued, placed_bids, placed_asks, cancel_requested, retired>>
venue == <<live, net_filled>>
vars == <<policy, ctrl, clock, out, ev, ghost, venue>>

LOT_SIZE == IF policy = "A" THEN LOT_SIZE_A ELSE LOT_SIZE_B

\* ------------------------------------------------------- container helpers
\* `id in self.bids` on a set (A) or on a dict (B)
Keys(c) == IF policy = "A" THEN c ELSE DOMAIN c
\* set.discard(id) / dict.pop(id, None)
Discard(c, id) == IF policy = "A" THEN c \ {id}
                  ELSE [k \in (DOMAIN c) \ {id} |-> c[k]]
\* dict[k] = v
Put(d, k, v) == [x \in (DOMAIN d) \cup {k} |-> IF x = k THEN v ELSE d[x]]

RECURSIVE SumSizes(_, _)
\* sum(order['size'] for order in d.values()), over the keys ks of d
SumSizes(d, ks) ==
    IF ks = {} THEN 0
    ELSE LET k == CHOOSE x \in ks : TRUE
         IN d[k].size + SumSizes(d, ks \ {k})

Min2(a, b) == IF a <= b THEN a ELSE b
Max2(a, b) == IF a >= b THEN a ELSE b

\* ---------------------------------------------------------------- commands
InsertOrder(id, side, price, size, lifespan) ==
    [cmd |-> "InsertOrder", id |-> id, side |-> side, price |-> price,
     volume |-> size, lifespan |-> lifespan]
CancelOrder(id) ==
    [cmd |-> "CancelOrder", id |-> id, side |-> "", price |-> 0,
     volume |-> 0, lifespan |-> ""]
HedgeOrder(id, side, price, volume) ==
    [cmd |-> "HedgeOrder", id |-> id, side |-> side, price |-> price,
     volume |-> volume, lifespan |-> ""]

\* The record of the last event: the handler and the case of it that ran.
Event(kind, case) == [kind |-> kind, case |-> case]

\* ----------------------------------------------------------------- pricing
\* The ladder level the spread is read from: 0 in autotrader.py, 2 in
\* autotrader5.py.
SpreadLevel == IF policy = "A" THEN 0 ELSE 2
Spread(book) == At(book.ask_prices, SpreadLevel) - At(book.bid_prices, SpreadLevel)

\* fair_price after the inventory skew and the clamp
FairPrice(book, pos) ==
    LET lots == pos \div LOT_SIZE
        mid_price == (At(book.bid_prices, 0) + At(book.ask_prices, 0)) \div 2
        spread == Spread(book)
        fair_price == F(mid_price) + FDiv(FMul(FDiv(F(lots), 100), spread), 2)
    IN MinIntF(MAX_ASK_NEAREST_TICK, MaxIntF(MIN_BID_NEAREST_TICK, fair_price))

\* the trend term of autotrader.py: applied to the clamped fair price
TrendAdjusted(fair_price, spread, tv, trend) ==
    IF tv # 0
    THEN IF trend > 0
         THEN fair_price + FDiv(FMul(FDiv(tv, 100), spread), 2)
         ELSE fair_price - FDiv(FMul(FDiv(tv, 100), spread), 2)
    ELSE fair_price

\* bid_price after the clamp and the rounding
BidPrice(fair_price, spread) ==
    FloorToMultiple(
        MinIntLessF(MAX_ASK_NEAREST_TICK, spread,
                    MaxIntF(MIN_BID_NEAREST_TICK, fair_price - FDiv(F(spread), 2))),
        TICK_SIZE_IN_CENTS)

\* AskPrice without the rounding to a tick
AskPrice_Unrounded(fair_price, spread) ==
    MinIntF(MAX_ASK_NEAREST_TICK,
            MaxIntF(MIN_BID_NEAREST_TICK + spread, fair_price + FDiv(F(spread), 2)))

\* ask_price after the clamp and the rounding
AskPrice(fair_price, spread) ==
    FloorToMultiple(
        MinIntF(MAX_ASK_NEAREST_TICK,
                MaxIntF(MIN_BID_NEAREST_TICK + spread, fair_price + FDiv(F(spread), 2))),
        TICK_SIZE_IN_CENTS)

\* autotrader.py's trend tracker: (trading_volume, price_trend) after the
\* event, from the top-of-book volumes.
TrendUpdate(book, tv, trend) ==
    LET current_volume ==
            FDiv(F(At(book.ask_volumes, 0) + At(book.bid_volumes, 0)), 2)
        volume_difference == current_volume - tv
    IN IF tv = 0
       THEN [trading_volume |-> current_volume, price_trend |-> trend]
       ELSE [trading_volume |-> current_volume,
             price_trend |-> IF volume_difference > 0 THEN 1
                             ELSE IF volume_difference < 0 THEN -1 ELSE 0]

\* Quote pricing on the trend state the tracker derives from this snapshot
Quote_TrendFirst(book, pos, tv, trend) ==
    LET spread == Spread(book)
        fair0 == FairPrice(book, pos)
        t == TrendUpdate(book, tv, trend)
        fair_price == IF policy = "A"
                      THEN TrendAdjusted(fair0, spread, t.trading_volume, t.price_trend)
                      ELSE fair0
    IN [bid |-> BidPrice(fair_price, spread), ask |-> AskPrice(fair_price, spread)]

\* (bid_price, ask_price) of one order-book event
Quote(book, pos, tv, trend) ==
    LET spread == Spread(book)
        fair0 == FairPrice(book, pos)
        fair_price == IF policy = "A" THEN TrendAdjusted(fair0, spread, tv, trend)
                      ELSE fair0
    IN [bid |-> BidPrice(fair_price, spread), ask |-> AskPrice(fair_price, spread)]

\* ------------------------------------------------------------------- inputs
\* Order ids an event may carry: 0 (not order-specific), every id sent so
\* far, and UnknownId, which is never handed out.
UnknownId == MaxId + 1
EventIds == {0, UnknownId} \cup {issued[i] : i \in DOMAIN issued}
\* Fill volumes (non-negative).
FillVolumes == {0, 60, 100}
\* remaining_volume of a status event.
RemainingVolumes == {0, 5}
\* Arguments the handlers only log.
LoggedPrices == {10000}
LoggedVolumes == {10}
LoggedFees == {0}
SequenceNumbers == {1}
Instruments == {FUTURE, ETF}

\* -------------------------------------------------------------------- Init
Init ==
    /\ policy \in {"A", "B"}
    /\ order_ids = 1
    /\ bids = (IF policy = "A" THEN {} ELSE << >>)
    /\ asks = (IF policy = "A" THEN {} ELSE << >>)
    /\ ask_id = 0 /\ ask_price = 0 /\ bid_id = 0 /\ bid_price = 0 /\ position = 0
    /\ order_timestamps = << >>
    /\ trading_volume = 0
    /\ price_trend = 0
    /\ clock = 0
    /\ out = << >>
    /\ ev = Event("init", "")
    /\ issued = << >>
    /\ placed_bids = {} /\ placed_asks = {}
    /\ cancel_requested = {}
    /\ retired = {}
    /\ live = << >>
    /\ net_filled = 0

\* How the controller knows the order id of an event, for the event record.
IdCase(id) == IF id \in Keys(bids) \cup Keys(asks) THEN "outstanding"
              ELSE IF id \in retired THEN "retired" ELSE "unknown"

\* ------------------------------------------------- on_order_status_message
\* StatusBidId clearing the slot on any terminal status
StatusBidId_AnyTerminal(id, remaining_volume) ==
    IF remaining_volume = 0 THEN 0 ELSE bid_id

\* The slots and the outstanding sets after a status message.
StatusBidId(id, remaining_volume) ==
    IF remaining_volume = 0 /\ id = bid_id THEN 0 ELSE bid_id
StatusAskId(id, remaining_volume) ==
    IF remaining_volume = 0 /\ id # bid_id /\ id = ask_id THEN 0 ELSE ask_id
StatusBids(id, remaining_volume) ==
    IF remaining_volume = 0 THEN Discard(bids, id) ELSE bids
StatusAsks(id, remaining_volume) ==
    IF remaining_volume = 0 THEN Discard(asks, id) ELSE asks

\* OrderStatus adding the reported fill volume to the position
OrderStatus_AppliesFill(id, fill_volume, remaining_volume, fees) ==
    /\ bid_id' = StatusBidId(id, remaining_volume)
    /\ ask_id' = StatusAskId(id, remaining_volume)
    /\ bids' = StatusBids(id, remaining_volume)
    /\ asks' = StatusAsks(id, remaining_volume)
    /\ retired' = IF remaining_volume = 0 /\ id \in Keys(bids) \cup Keys(asks)
                  THEN retired \cup {id} ELSE retired
    /\ position' = IF id \in Keys(bids) THEN position + fill_volume
                   ELSE IF id \in Keys(asks) THEN position - fill_volume
                   ELSE position
    /\ UNCHANGED <<order_ids, bid_price, ask_price, order_timestamps,
                   trading_volume, price_trend>>

\* The body of on_order_status_message, also run by on_error_message.
OrderStatus(id, fill_volume, remaining_volume, fees) ==
    /\ bid_id' = StatusBidId(id, remaining_volume)
    /\ ask_id' = StatusAskId(id, remaining_volume)
    /\ bids' = StatusBids(id, remaining_volume)
    /\ asks' = StatusAsks(id, remaining_volume)
    /\ retired' = IF remaining_volume = 0 /\ id \in Keys(bids) \cup Keys(asks)
                  THEN retired \cup {id} ELSE retired
    /\ UNCHANGED <<order_ids, bid_price, ask_price, position, order_timestamps,
                   trading_volume, price_trend>>

OnOrderStatusMessage(id, fill_volume, remaining_volume, fees) ==
    /\ OrderStatus(id, fill_volume, remaining_volume, fees)
    /\ out' = << >>
    /\ ev' = Event("status", IF remaining_volume # 0 THEN "open" ELSE IdCase(id))
    /\ UNCHANGED <<policy, clock, issued, placed_bids, placed_asks, cancel_requested>>

\* -------------------------------------------------------- on_error_message
\* ErrorIsHandled looking at the bids only
ErrorIsHandled_BidsOnly(id) == id # 0 /\ id \in Keys(bids)

ErrorIsHandled(id) == id # 0 /\ (id \in Keys(bids) \/ id \in Keys(asks))

OnErrorMessage(id) ==
    /\ IF ErrorIsHandled(id)
       THEN OrderStatus(id, 0, 0, 0)
       ELSE UNCHANGED <<ctrl, retired>>
    /\ out' = << >>
    /\ ev' = Event("error", IF id = 0 THEN "zero" ELSE IdCase(id))
    /\ UNCHANGED <<policy, clock, issued, placed_bids, placed_asks, cancel_requested>>

\* ------------------------------------------------- on_hedge_filled_message
OnHedgeFilledMessage(id, price, volume) ==
    /\ out' = << >>
    /\ ev' = Event("hedge_filled", "")
    /\ UNCHANGED <<policy, ctrl, clock, ghost>>

\* -------------------------------------------------- on_trade_ticks_message
OnTradeTicksMessage(instrument, sequence_number, book) ==
    /\ out' = << >>
    /\ ev' = Event("trade_ticks", "")
    /\ UNCHANGED <<policy, ctrl, clock, ghost>>

\* ------------------------------------------------- on_order_filled_message
\* Which branch of the handler a fill for order id takes.
FillSide(id) == IF id \in Keys(bids) THEN "bid"
                ELSE IF id \in Keys(asks) THEN "ask" ELSE "none"

\* position after `self.position += volume` / `-= volume`
FillMoved(side, pos, volume) ==
    IF side = "bid" THEN pos + volume
    ELSE IF side = "ask" THEN pos - volume ELSE pos

\* the limit test on the moved position
FillBreaches(side, moved) ==
    \/ side = "bid" /\ moved > POSITION_LIMIT
    \/ side = "ask" /\ moved < -POSITION_LIMIT

\* FillPosition without the rollback / the clamp of the breach branch
FillPosition_NoRollback(side, pos, volume) == FillMoved(side, pos, volume)

\* position when the handler returns
FillPosition(side, pos, volume) ==
    LET moved == FillMoved(side, pos, volume)
    IN IF ~FillBreaches(side, moved) THEN moved
       ELSE IF policy = "A"
            THEN (IF side = "bid" THEN moved - volume ELSE moved + volume)
            ELSE (IF side = "bid" THEN POSITION_LIMIT ELSE -POSITION_LIMIT)

\* FillCommands hedging one lot instead of the filled volume
FillCommands_HedgeLot(id, side, pos, volume, next_id) ==
    IF side = "none" THEN << >>
    ELSE IF FillBreaches(side, FillMoved(side, pos, volume))
         THEN (IF policy = "A" THEN << CancelOrder(id) >> ELSE << >>)
         ELSE IF side = "bid"
              THEN << HedgeOrder(next_id, Side_ASK, MIN_BID_NEAREST_TICK, LOT_SIZE) >>
              ELSE << HedgeOrder(next_id, Side_BID, MAX_ASK_NEAREST_TICK, LOT_SIZE) >>

\* FillCommands without the cancel of the breach branch
FillCommands_NoCancel(id, side, pos, volume, next_id) ==
    IF side = "none" \/ FillBreaches(side, FillMoved(side, pos, volume)) THEN << >>
    ELSE IF side = "bid"
         THEN << HedgeOrder(next_id, Side_ASK, MIN_BID_NEAREST_TICK, volume) >>
         ELSE << HedgeOrder(next_id, Side_BID, MAX_ASK_NEAREST_TICK, volume) >>

\* the commands the handler sends; next_id is next(self.order_ids)
FillCommands(id, side, pos, volume, next_id) ==
    IF side = "none" THEN << >>
    ELSE IF FillBreaches(side, FillMoved(side, pos, volume))
         THEN (IF policy = "A" THEN << CancelOrder(id) >> ELSE << >>)
         ELSE IF side = "bid"
              THEN << HedgeOrder(next_id, Side_ASK, MIN_BID_NEAREST_TICK, volume) >>
              ELSE << HedgeOrder(next_id, Side_BID, MAX_ASK_NEAREST_TICK, volume) >>

\* does the handler draw an id?
FillHedges(side, pos, volume) ==
    side # "none" /\ ~FillBreaches(side, FillMoved(side, pos, volume))

\* self.order_timestamps after the handler; now is self.event_loop.time()
FillTimestamps(id, now) ==
    IF policy = "A" THEN Put(order_timestamps, id, now) ELSE order_timestamps

\* the ids on_order_filled_message draws: one for the hedge order
FillDraws(id, volume) ==
    IF FillHedges(FillSide(id), position, volume) THEN 1 ELSE 0

OnOrderFilledMessage(id, price, volume, now) ==
    LET side == FillSide(id)
        hedges == FillHedges(side, position, volume)
        cmds == FillCommands(id, side, position, volume, order_ids)
    IN /\ order_timestamps' = FillTimestamps(id, now)
       /\ clock' = IF policy = "A" THEN now ELSE clock
       /\ position' = FillPosition(side, position, volume)
       /\ order_ids' = IF hedges THEN order_ids + 1 ELSE order_ids
       /\ out' = cmds
       /\ issued' = IF hedges THEN Append(issued, order_ids) ELSE issued
       /\ cancel_requested' =
              cancel_requested \cup {cmds[i].id : i \in {j \in DOMAIN cmds : cmds[j].cmd = "CancelOrder"}}
       /\ ev' = Event("fill", IF side = "none" THEN IdCase(id)
                               ELSE IF hedges THEN "hedge" ELSE "breach")
       /\ UNCHANGED <<policy, bids, asks, bid_id, ask_id, bid_price, ask_price,
                      trading_volume, price_trend, placed_bids, placed_asks, retired>>

\* -------------------------------------------- on_order_book_update_message
\* CancelsBid cancelling on every quote
CancelsBid_OnEveryQuote(new_bid_price) == bid_id # 0

\* "Cancel existing orders if necessary"
CancelsBid(new_bid_price) == bid_id # 0 /\ new_bid_price \notin {bid_price, 0}
CancelsAsk(new_ask_price) == ask_id # 0 /\ new_ask_price \notin {ask_price, 0}

\* "Place new orders if necessary": the guards, on the slot after the cancels
PlacesBid_IgnoringSlot(slot, pos) == pos < POSITION_LIMIT
PlacesBid(slot, pos) == slot = 0 /\ pos < POSITION_LIMIT
PlacesAsk(slot, pos) == slot = 0 /\ pos > -POSITION_LIMIT

\* BidSize leaving the outstanding bid volume out of the capacity
BidSize_IgnoringOutstanding(pos, bid_volume) ==
    IF policy = "A" THEN Min2(POSITION_LIMIT - pos, LOT_SIZE)
    ELSE Min2(SIZE_CAP, Max2(0, Min2(POSITION_LIMIT - pos, bid_volume)))

\* max_order_size of the new bid / ask
BidSize(pos, bid_volume) ==
    IF policy = "A" THEN Min2(POSITION_LIMIT - pos, LOT_SIZE)
    ELSE Min2(SIZE_CAP,
              Max2(0, Min2(POSITION_LIMIT - pos - SumSizes(bids, DOMAIN bids),
                           bid_volume)))
AskSize(pos, ask_volume) ==
    IF policy = "A" THEN Min2(POSITION_LIMIT + pos, LOT_SIZE)
    ELSE Min2(SIZE_CAP,
              Max2(0, Min2(POSITION_LIMIT + pos - SumSizes(asks, DOMAIN asks),
                           ask_volume)))

\* AskOrderId reusing the id of the bid
AskOrderId_Reused(next_id, place_bid) == next_id

\* the id the second next(self.order_ids) of the handler returns
AskOrderId(next_id, place_bid) == IF place_bid THEN next_id + 1 ELSE next_id

Lifespan == IF policy = "A" THEN Lifespan_FILL_AND_KILL ELSE Lifespan_GFD

\* Record forgetting to add the order
Record_Forgets(c, id, price, size) == c

\* self.bids.add(id) / self.bids[id] = {'price': ..., 'size': ...}
Record(c, id, price, size) ==
    IF policy = "A" THEN c \cup {id}
    ELSE Put(c, id, [price |-> price, size |-> size])

\* the ids on_order_book_update_message draws: one for each order it places
BookDraws(book) ==
    LET q == Quote(book, position, trading_volume, price_trend)
        bid_slot == IF CancelsBid(q.bid) THEN 0 ELSE bid_id
        ask_slot == IF CancelsAsk(q.ask) THEN 0 ELSE ask_id
    IN (IF PlacesBid(bid_slot, position) THEN 1 ELSE 0)
       + (IF PlacesAsk(ask_slot, position) THEN 1 ELSE 0)

BookUpdate(book, b) ==
    LET q == Quote(book, position, trading_volume, price_trend)
        t == TrendUpdate(book, trading_volume, price_trend)
        cancel_bid == CancelsBid(q.bid)
        cancel_ask == CancelsAsk(q.ask)
        bid_slot == IF cancel_bid THEN 0 ELSE bid_id
        ask_slot == IF cancel_ask THEN 0 ELSE ask_id
        place_bid == PlacesBid(bid_slot, position)
        place_ask == PlacesAsk(ask_slot, position)
        new_bid == order_ids
        new_ask == AskOrderId(order_ids, place_bid)
        drawn == BookDraws(book)
        bid_size == BidSize(position, At(book.bid_volumes, 0))
        ask_size == AskSize(position, At(book.ask_volumes, 0))
        cancels == (IF cancel_bid THEN << CancelOrder(bid_id) >> ELSE << >>)
                   \o (IF cancel_ask THEN << CancelOrder(ask_id) >> ELSE << >>)
        inserts ==
            (IF place_bid
             THEN << InsertOrder(new_bid, Side_BUY, ToInt(q.bid), bid_size, Lifespan) >>
             ELSE << >>)
            \o (IF place_ask
                THEN << InsertOrder(new_ask, Side_SELL, ToInt(q.ask), ask_size, Lifespan) >>
                ELSE << >>)
    IN /\ trading_volume' = IF policy = "A" THEN t.trading_volume ELSE trading_volume
       /\ price_trend' = IF policy = "A" THEN t.price_trend ELSE price_trend
       /\ bid_id' = IF place_bid THEN new_bid ELSE bid_slot
       /\ ask_id' = IF place_ask THEN new_ask ELSE ask_slot
       /\ bid_price' = IF place_bid THEN q.bid ELSE bid_price
       /\ ask_price' = IF place_ask THEN q.ask ELSE ask_price
       /\ bids' = IF place_bid THEN Record(bids, new_bid, q.bid, bid_size) ELSE bids
       /\ asks' = IF place_ask THEN Record(asks, new_ask, q.ask, ask_size) ELSE asks
       /\ order_ids' = order_ids + drawn
       /\ out' = cancels \o inserts
       /\ issued' = issued \o (IF place_bid THEN << new_bid >> ELSE << >>)
                           \o (IF place_ask THEN << new_ask >> ELSE << >>)
       /\ placed_bids' = IF place_bid THEN placed_bids \cup {new_bid} ELSE placed_bids
       /\ placed_asks' = IF place_ask THEN placed_asks \cup {new_ask} ELSE placed_asks
       /\ cancel_requested' = cancel_requested
                              \cup (IF cancel_bid THEN {bid_id} ELSE {})
                              \cup (IF cancel_ask THEN {ask_id} ELSE {})
       /\ UNCHANGED <<position, order_timestamps, retired>>

OnOrderBookUpdateMessage(instrument, sequence_number, b) ==
    /\ IF instrument = FUTURE
       THEN BookUpdate(Books[b], b)
       ELSE /\ out' = << >>
            /\ UNCHANGED <<ctrl, ghost>>
    /\ ev' = Event("book", IF instrument = FUTURE THEN "future" ELSE "other")
    /\ UNCHANGED <<policy, clock>>

\* -------------------------------------------------------------------- Next
\* The snapshots of the free-running specification.
TraderBooks == {b \in DOMAIN Books : b <= 6}

\* The handlers are called in any order with any arguments.  A behaviour is
\* cut where the id counter would pass MaxId.
Next ==
    \/ \E id \in EventIds : OnErrorMessage(id) /\ UNCHANGED venue
    \/ \E id \in EventIds, price \in LoggedPrices, volume \in LoggedVolumes :
           OnHedgeFilledMessage(id, price, volume) /\ UNCHANGED venue
    \/ \E id \in EventIds, price \in LoggedPrices, volume \in FillVolumes,
          now \in clock .. MaxClock :
           /\ order_ids + FillDraws(id, volume) <= MaxId + 1
           /\ OnOrderFilledMessage(id, price, volume, now)
           /\ UNCHANGED venue
    \/ \E id \in EventIds, fill_volume \in LoggedVolumes,
          remaining_volume \in RemainingVolumes, fees \in LoggedFees :
           OnOrderStatusMessage(id, fill_volume, remaining_volume, fees)
           /\ UNCHANGED venue
    \/ \E instrument \in Instruments, sequence_number \in SequenceNumbers,
          b \in TraderBooks :
           OnTradeTicksMessage(instrument, sequence_number, b) /\ UNCHANGED venue
    \/ \E instrument \in Instruments, sequence_number \in SequenceNumbers,
          b \in TraderBooks :
           /\ instrument = FUTURE => order_ids + BookDraws(Books[b]) <= MaxId + 1
           /\ OnOrderBookUpdateMessage(instrument, sequence_number, b)
           /\ UNCHANGED venue

Spec == Init /\ [][Next]_vars

\* ------------------------------------------------------------ the venue
\* The specifications below run the same handlers against a venue that keeps
\* its own book of the controller's orders: it fills an order for at most its
\* unfilled remainder, in total never more than the requested size, and sends
\* nothing for an order after the terminal status of that order.  live and
\* net_filled are the venue's side; the controller never reads them.  The
\* events that change no controller state (hedge fills, trade ticks, other
\* instruments, open statuses) are left out.

\* The volumes of a fill: the whole remainder, or a part of it.
PartialFill == 5
VenueFillVolumes(remainder) ==
    {v \in {PartialFill, remainder} : 1 <= v /\ v <= remainder}

\* the venue's book once it has taken the InsertOrder commands of cmds
Accepted(cmds) ==
    LET new == {i \in DOMAIN cmds : cmds[i].cmd = "InsertOrder"}
    IN [id \in (DOMAIN live) \cup {cmds[i].id : i \in new} |->
            IF id \in DOMAIN live THEN live[id]
            ELSE cmds[CHOOSE i \in new : cmds[i].id = id].volume]

\* an order-book event of the tracked instrument; the venue takes the inserts
VenueBook(b) ==
    /\ \E sequence_number \in SequenceNumbers :
           OnOrderBookUpdateMessage(FUTURE, sequence_number, b)
    /\ live' = Accepted(out')
    /\ net_filled' = net_filled

\* the venue fills live order id for v
VenueFill(id, v) ==
    /\ \E price \in LoggedPrices, now \in clock .. MaxClock :
           OnOrderFilledMessage(id, price, v, now)
    /\ live' = [live EXCEPT ![id] = @ - v]
    /\ net_filled' = IF id \in placed_bids THEN net_filled + v ELSE net_filled - v

\* the cancel requests the venue has not answered yet; it answers them in the
\* order they were sent, which is the order of the ids
CancelPending == {k \in DOMAIN live : k \in cancel_requested /\ live[k] # 0}

\* the terminal status of live order id: a fill-and-kill order ends at any
\* time, a good-for-day order when it is filled or its cancel is answered
VenueTerminal(id) ==
    /\ \/ Lifespan = Lifespan_FILL_AND_KILL
       \/ live[id] = 0
       \/ id \in CancelPending /\ \A k \in CancelPending : id <= k
    /\ \E fill_volume \in LoggedVolumes, fees \in LoggedFees :
           OnOrderStatusMessage(id, fill_volume, 0, fees)
    /\ live' = [k \in (DOMAIN live) \ {id} |-> live[k]]
    /\ net_filled' = net_filled

\* the fills so far: each one that was not clamped has sent a hedge order
VenueFills == Len(issued) - Cardinality(placed_bids \cup placed_asks)

\* Largest order id under SpecVenueB.
MaxVenueIdB == 10
\* Largest number of fills under SpecVenueB.
MaxVenueFillsB == 1
\* The snapshots the venue publishes under SpecVenueB.
VenueBooksB == {3, 7}

VenueNextB ==
    \/ \E b \in VenueBooksB :
           /\ order_ids + BookDraws(Books[b]) <= MaxVenueIdB + 1
           /\ VenueBook(b)
    \/ \E id \in DOMAIN live : \E v \in VenueFillVolumes(live[id]) :
           /\ VenueFills < MaxVenueFillsB
           /\ order_ids + FillDraws(id, v) <= MaxVenueIdB + 1
           /\ VenueFill(id, v)
    \/ \E id \in DOMAIN live : VenueTerminal(id)

\* autotrader5.py against the venue
InitVenueB == Init /\ policy = "B"
SpecVenueB == InitVenueB /\ [][VenueNextB]_vars

\* Largest order id under SpecVenueA.
MaxVenueIdA == 26
\* The snapshot the venue publishes under SpecVenueA.
VenueBooksA == {1}

\* the live orders with something left to fill
Unfilled == {k \in DOMAIN live : live[k] > 0}

\* Under SpecVenueA the venue fills bids only, each fill for the whole
\* remainder, and ends an order once it is filled.
VenueNextA ==
    \/ \E b \in VenueBooksA :
           /\ order_ids + BookDraws(Books[b]) <= MaxVenueIdA + 1
           /\ VenueBook(b)
    \/ \E id \in Unfilled \cap placed_bids :
           /\ order_ids + FillDraws(id, live[id]) <= MaxVenueIdA + 1
           /\ VenueFill(id, live[id])
    \/ \E id \in DOMAIN live : live[id] = 0 /\ VenueTerminal(id)

\* autotrader.py against the venue
InitVenueA == Init /\ policy = "A"
SpecVenueA == InitVenueA /\ [][VenueNextA]_vars

\* ================================================================= claims
Range(seq) == {seq[i] : i \in DOMAIN seq}
\* the commands of a command sequence that carry a fresh order id
Sends(cmds) == {cmds[i] : i \in {j \in DOMAIN cmds : cmds[j].cmd \in {"InsertOrder", "HedgeOrder"}}}
Cancels(cmds) == {cmds[i].id : i \in {j \in DOMAIN cmds : cmds[j].cmd = "CancelOrder"}}
Inserts(cmds, side) ==
    {cmds[i] : i \in {j \in DOMAIN cmds : cmds[j].cmd = "InsertOrder" /\ cmds[j].side = side}}
Outstanding == Keys(bids) \cup Keys(asks)

\* C1: in both variants the tracked position stays within
\* [-POSITION_LIMIT, POSITION_LIMIT] in every state between event handlers.
C1_PositionWithinLimit ==
    -POSITION_LIMIT <= position /\ position <= POSITION_LIMIT

\* C1 witness: a fill that would have breached the limit has been handled.
C1_Witness ==
    /\ ev = Event("fill", "breach")
    /\ position \in {POSITION_LIMIT, 60}

\* ----------------------------------------------------------------------
\* C2 (as claimed): among the bids the controller has inserted at most one is
\* neither cancel-requested nor retired, and the active-bid slot holds exactly
\* that order's id, or 0 when there is none; symmetrically for asks.
ActiveBids == placed_bids \ (cancel_requested \cup retired)
ActiveAsks == placed_asks \ (cancel_requested \cup retired)

C2_SlotIsExactlyTheActiveOrder ==
    /\ Cardinality(ActiveBids) <= 1
    /\ bid_id = (IF ActiveBids = {} THEN 0 ELSE CHOOSE o \in ActiveBids : TRUE)
    /\ Cardinality(ActiveAsks) <= 1
    /\ ask_id = (IF ActiveAsks = {} THEN 0 ELSE CHOOSE o \in ActiveAsks : TRUE)

\* C2 (amended): at most one inserted bid is neither cancel-requested nor
\* retired and the slot holds its id when there is one; when there is none
\* the slot is 0 or, in autotrader.py only, the id of a still outstanding bid
\* whose cancel the fill handler requested on a limit breach.  Same for asks.
C2_AtMostOneActivePerSide ==
    /\ Cardinality(ActiveBids) <= 1
    /\ \A o \in ActiveBids : bid_id = o
    /\ ActiveBids = {} =>
           \/ bid_id = 0
           \/ policy = "A" /\ bid_id \in Keys(bids) \cap cancel_requested
    /\ Cardinality(ActiveAsks) <= 1
    /\ \A o \in ActiveAsks : ask_id = o
    /\ ActiveAsks = {} =>
           \/ ask_id = 0
           \/ policy = "A" /\ ask_id \in Keys(asks) \cap cancel_requested

\* C2 witness: an active ask sits in the slot while an older ask, cancelled on
\* a price change, is still outstanding.
C2_Witness ==
    /\ ask_id # 0 /\ ask_id \in ActiveAsks
    /\ \E o \in Keys(asks) \cap cancel_requested : o < ask_id

\* ----------------------------------------------------------------------
IsSend(c) == c.cmd \in {"InsertOrder", "HedgeOrder"}
\* the ids of the InsertOrder/HedgeOrder commands of a sequence, in order
SendIds(cmds) == LET sel == SelectSeq(cmds, IsSend)
                 IN [i \in DOMAIN sel |-> sel[i].id]

\* C3: the ids of all InsertOrder and HedgeOrder commands sent so far are
\* strictly increasing in emission order (hence pairwise distinct) and none
\* is 0; the ids the last handler sent are the latest of them.
C3_OrderIdsNeverReused ==
    /\ \A i, j \in DOMAIN issued : i < j => issued[i] < issued[j]
    /\ \A i \in DOMAIN issued : issued[i] # 0
    /\ LET sent == SendIds(out)
       IN /\ Len(sent) <= Len(issued)
          /\ SubSeq(issued, Len(issued) - Len(sent) + 1, Len(issued)) = sent

\* C3 witness: two inserts and a hedge have drawn three ids.
C3_Witness ==
    /\ Len(issued) = 3
    /\ ev = Event("fill", "hedge")
    /\ out[1].id = issued[3]

\* ----------------------------------------------------------------------
\* C4 (as claimed): every price sent in an InsertOrder or HedgeOrder is a
\* multiple of the tick size within [MIN_BID_NEAREST_TICK, MAX_ASK_NEAREST_TICK].
C4_SentPricesTickAlignedInRange ==
    \A c \in Sends(out) :
        /\ c.price % TICK_SIZE_IN_CENTS = 0
        /\ MIN_BID_NEAREST_TICK <= c.price
        /\ c.price <= MAX_ASK_NEAREST_TICK

\* ----------------------------------------------------------------------
BestBid(b) == At(Books[b].bid_prices, 0)
BestAsk(b) == At(Books[b].ask_prices, 0)
InBounds(price) ==
    /\ price % TICK_SIZE_IN_CENTS = 0
    /\ MIN_BID_NEAREST_TICK <= price
    /\ price <= MAX_ASK_NEAREST_TICK
\* a tracked-instrument order-book event carrying snapshot b
BookEvent(b) == \E sn \in SequenceNumbers : OnOrderBookUpdateMessage(FUTURE, sn, b)

C6_CancelIffPriceChanged ==
    [][\A b \in DOMAIN Books :
          (ev' = Event("book", "future") /\ BookEvent(b))
          => LET q == Quote(Books[b], position, trading_volume, price_trend)
             IN /\ (bid_id \in Cancels(out'))
                       <=> (bid_id # 0 /\ q.bid # bid_price /\ q.bid # 0)
                /\ (bid_id # 0 /\ q.bid = bid_price)
                       => /\ bid_id' = bid_id
                          /\ Inserts(out', Side_BUY) = {}
                          /\ bid_id \notin Cancels(out')
                /\ (ask_id \in Cancels(out'))
                       <=> (ask_id # 0 /\ q.ask # ask_price /\ q.ask # 0)
                /\ (ask_id # 0 /\ q.ask = ask_price)
                       => /\ ask_id' = ask_id
                          /\ Inserts(out', Side_SELL) = {}
                          /\ ask_id \notin Cancels(out')]_vars

\* C6 witness: an order-book event kept the active bid (no cancel, no insert
\* for it) while it cancelled and replaced the ask.
C6_Witness ==
    /\ ev = Event("book", "future")
    /\ bid_id # 0 /\ bid_id \notin Cancels(out)
    /\ Inserts(out, Side_BUY) = {}
    /\ Cancels(out) # {}
    /\ \E c \in Inserts(out, Side_SELL) : c.id = ask_id

\* ----------------------------------------------------------------------
\* an order-filled event for order id with volume v
FillEvent(id, v) ==
    \E price \in LoggedPrices, now \in clock .. MaxClock :
        OnOrderFilledMessage(id, price, v, now)

\* C7: a fill of volume v for an outstanding bid that leaves position within
\* the limit raises position by exactly v and sends exactly one HedgeOrder:
\* fresh id, side ASK, price MIN_BID_NEAREST_TICK, volume v; a fill for an
\* outstanding ask that leaves position >= -POSITION_LIMIT lowers position by
\* v and sends one HedgeOrder: fresh id, side BID, MAX_ASK_NEAREST_TICK, v.
C7_FillHedgedForFilledVolume ==
    [][\A id \in Outstanding, v \in FillVolumes :
          (ev'.kind = "fill" /\ FillEvent(id, v))
          => /\ (id \in Keys(bids) /\ position + v <= POSITION_LIMIT)
                    => /\ position' = position + v
                       /\ out' = << HedgeOrder(order_ids, Side_ASK, MIN_BID_NEAREST_TICK, v) >>
                       /\ order_ids # 0 /\ order_ids \notin Range(issued)
                       /\ order_ids' = order_ids + 1
             /\ (id \in Keys(asks) /\ position - v >= -POSITION_LIMIT)
                    => /\ position' = position - v
                       /\ out' = << HedgeOrder(order_ids, Side_BID, MAX_ASK_NEAREST_TICK, v) >>
                       /\ order_ids # 0 /\ order_ids \notin Range(issued)
                       /\ order_ids' = order_ids + 1]_vars

\* C7 witness: a bid fill of 60 from flat was hedged by a sell of 60.
C7_Witness ==
    /\ ev = Event("fill", "hedge")
    /\ position = 60
    /\ out = << HedgeOrder(3, Side_ASK, MIN_BID_NEAREST_TICK, 60) >>

\* ----------------------------------------------------------------------
\* C8: in autotrader.py a fill of volume v for an outstanding bid with
\* position + v > POSITION_LIMIT sends CancelOrder for that order, sends no
\* HedgeOrder, draws no order id and leaves position as it was; symmetrically
\* for an outstanding ask with position - v < -POSITION_LIMIT.
C8_BreachCancelsAndRollsBack ==
    [][\A id \in Outstanding, v \in FillVolumes :
          (policy = "A" /\ ev'.kind = "fill" /\ FillEvent(id, v))
          => /\ (id \in Keys(bids) /\ position + v > POSITION_LIMIT)
                    => /\ out' = << CancelOrder(id) >>
                       /\ order_ids' = order_ids /\ issued' = issued
                       /\ position' = position
             /\ (id \in Keys(asks) /\ position - v < -POSITION_LIMIT)
                    => /\ out' = << CancelOrder(id) >>
                       /\ order_ids' = order_ids /\ issued' = issued
                       /\ position' = position]_vars

\* C8 witness: autotrader.py at position 60 has refused a bid fill and sent
\* the cancel of the filled order.
C8_Witness ==
    /\ policy = "A"
    /\ ev = Event("fill", "breach")
    /\ position = 60
    /\ \E id \in Keys(bids) : out = << CancelOrder(id) >>

\* ----------------------------------------------------------------------
\* an order-status event for order id with the given remaining volume
StatusEvent(id, remaining_volume) ==
    \E fill_volume \in LoggedVolumes, fees \in LoggedFees :
        OnOrderStatusMessage(id, fill_volume, remaining_volume, fees)

\* C9 (as claimed): in both variants a fill, status or error event whose order
\* id is in neither outstanding set changes no controller state and sends no
\* command.
C9_UnknownOrderEventChangesNothing ==
    [][\A id \in EventIds \ Outstanding :
          (/\ ev'.kind \in {"fill", "status", "error"}
           /\ \/ \E v \in FillVolumes : FillEvent(id, v)
              \/ \E r \in RemainingVolumes : StatusEvent(id, r)
              \/ OnErrorMessage(id))
          => UNCHANGED ctrl /\ out' = << >>]_vars

\* ----------------------------------------------------------------------
\* C10: once a terminal status (or error) has retired order id o, any later
\* terminal status or error event for o leaves the whole controller state
\* unchanged and sends no command; it never clears a slot that now holds a
\* newer order.
C10_TerminalStatusIdempotent ==
    [][\A id \in retired :
          (/\ ev'.kind \in {"status", "error"}
           /\ StatusEvent(id, 0) \/ OnErrorMessage(id))
          => UNCHANGED ctrl /\ out' = << >>]_vars

\* C10 witness: a second terminal status for a retired bid arrived while the
\* slot holds a newer bid.
C10_Witness ==
    /\ ev = Event("status", "retired")
    /\ bid_id # 0
    /\ \E o \in retired \cap placed_bids : o < bid_id

\* ----------------------------------------------------------------------
\* orders the order-book handler has cancelled (slot cleared) and that no
\* terminal status or error has retired yet
CancelledUnconfirmed ==
    {id \in cancel_requested \cap Outstanding : id \notin {bid_id, ask_id}}

\* C11 (as claimed): an order cancelled by the order-book handler leaves its
\* slot and stays in the outstanding set until its first terminal status or
\* error; a fill for it before that event is applied as for any order
\* (position moved and hedged, or the breach policy run); a fill for it after
\* that event changes no controller state and sends no command.
C11_CancelFillRace ==
    [][/\ \A id \in Cancels(out') :
              ev' = Event("book", "future")
              => id \in Keys(bids') \cup Keys(asks') /\ id \notin {bid_id', ask_id'}
       /\ \A id \in CancelledUnconfirmed :
              \/ id \in Keys(bids') \cup Keys(asks')
              \/ /\ ev'.kind \in {"status", "error"}
                 /\ StatusEvent(id, 0) \/ OnErrorMessage(id)
       /\ \A id \in CancelledUnconfirmed, v \in FillVolumes :
              (ev'.kind = "fill" /\ FillEvent(id, v))
              => LET moved == IF id \in Keys(bids) THEN position + v ELSE position - v
                     within == -POSITION_LIMIT <= moved /\ moved <= POSITION_LIMIT
                 IN /\ within =>
                          /\ position' = moved
                          /\ out' = << HedgeOrder(order_ids,
                                          IF id \in Keys(bids) THEN Side_ASK ELSE Side_BID,
                                          IF id \in Keys(bids) THEN MIN_BID_NEAREST_TICK
                                          ELSE MAX_ASK_NEAREST_TICK, v) >>
                    /\ (~within /\ policy = "A") =>
                          position' = position /\ out' = << CancelOrder(id) >>
                    /\ (~within /\ policy = "B") =>
                          /\ position' = (IF id \in Keys(bids) THEN POSITION_LIMIT
                                          ELSE -POSITION_LIMIT)
                          /\ out' = << >>
       /\ \A id \in retired \cap cancel_requested, v \in FillVolumes :
              (ev' = Event("fill", "retired") /\ FillEvent(id, v))
              => UNCHANGED ctrl /\ out' = << >>]_vars

\* ----------------------------------------------------------------------
\* C12 (as claimed): in both variants every InsertOrder sent has size >= 1:
\* an order is inserted (id drawn, slot set, outstanding set extended) only
\* when the computed size is strictly positive.
C12_InsertedSizePositive ==
    \A i \in DOMAIN out : out[i].cmd = "InsertOrder" => out[i].volume >= 1

\* ----------------------------------------------------------------------
\* the controller state a terminal event for outstanding order id must leave:
\* id out of both outstanding sets (the other orders kept as they are), the
\* slot that holds id cleared, everything else as it was, no command
RetiredExactly(id) ==
    /\ Keys(bids') = Keys(bids) \ {id}
    /\ Keys(asks') = Keys(asks) \ {id}
    /\ policy = "B" => /\ \A k \in Keys(bids') : bids'[k] = bids[k]
                       /\ \A k \in Keys(asks') : asks'[k] = asks[k]
    /\ bid_id' = (IF bid_id = id THEN 0 ELSE bid_id)
    /\ ask_id' = (IF ask_id = id THEN 0 ELSE ask_id)
    /\ position' = position
    /\ UNCHANGED <<order_ids, bid_price, ask_price, order_timestamps,
                   trading_volume, price_trend>>
    /\ out' = << >>

\* C13: an error event for a non-zero outstanding id leaves exactly the state
\* a status event with fill 0 and remaining 0 for that id leaves: the id is
\* removed from the outstanding set, the slot holding it is cleared, position
\* is unchanged and nothing is sent; an error event with id 0 changes nothing.
C13_ErrorRetiresLikeTerminalStatus ==
    [][/\ \A id \in Outstanding \ {0} :
              (ev' = Event("error", "outstanding") /\ OnErrorMessage(id))
              => RetiredExactly(id)
       /\ \A id \in Outstanding \ {0} :
              (ev' = Event("status", "outstanding") /\ StatusEvent(id, 0))
              => RetiredExactly(id)
       /\ (ev' = Event("error", "zero") /\ OnErrorMessage(0))
              => UNCHANGED ctrl /\ out' = << >>]_vars

\* C13 witness: an error event has retired the active ask: the order is out
\* of the outstanding set and the ask slot is empty.
C13_Witness ==
    /\ ev = Event("error", "outstanding")
    /\ ask_id = 0 /\ bid_id # 0
    /\ \E o \in (retired \cap placed_asks) \ cancel_requested : o \notin Keys(asks)
    /\ out = << >>

\* ----------------------------------------------------------------------
Sign(x) == IF x > 0 THEN 1 ELSE IF x < 0 THEN -1 ELSE 0
\* the combined top-of-book volume of snapshot b, a float
TopVolume(b) ==
    FDiv(F(At(Books[b].ask_volumes, 0) + At(Books[b].bid_volumes, 0)), 2)
\* No tracked-instrument order-book event has been handled yet: the first one
\* always inserts a bid (flat position, empty slot), so an id has been issued
\* exactly when one has been handled.
NoBookSeenYet == issued = << >>

\* C14 (as claimed): in autotrader.py the first tracked-instrument order-book
\* event records the combined top-of-book volume v and leaves trend 0; every
\* later one sets trend to sign(v - previous) and previous to v, also when an
\* observed v is 0.
C14_TrendIsSignOfVolumeChange ==
    [][\A b \in DOMAIN Books :
          (policy = "A" /\ ev' = Event("book", "future") /\ BookEvent(b))
          => /\ trading_volume' = TopVolume(b)
             /\ price_trend' = (IF NoBookSeenYet THEN 0
                                ELSE Sign(TopVolume(b) - trading_volume))]_vars

\* ----------------------------------------------------------------------
\* sign(trend) * (tradingVolume / 100) * spread / 2, a float
SignedTrendTerm(spread, tv, trend) ==
    Sign(trend) * FDiv(FMul(FDiv(tv, 100), spread), 2)

\* C15 (as claimed): in autotrader.py the amount added to the fair price is
\* sign(trend) * (tradingVolume/100) * spread/2 (zero when trend = 0, when
\* tradingVolume = 0 or when spread = 0), and the prices inserted are the
\* ones that amount gives.
C15_TrendTermIsSigned ==
    [][\A b \in DOMAIN Books :
          (policy = "A" /\ ev' = Event("book", "future") /\ BookEvent(b))
          => LET spread == Spread(Books[b])
                 fair0 == FairPrice(Books[b], position)
                 term == SignedTrendTerm(spread, trading_volume, price_trend)
             IN /\ TrendAdjusted(fair0, spread, trading_volume, price_trend) - fair0
                       = term
                /\ \A c \in Inserts(out', Side_BUY) :
                       c.price = ToInt(BidPrice(fair0 + term, spread))
                /\ \A c \in Inserts(out', Side_SELL) :
                       c.price = ToInt(AskPrice(fair0 + term, spread))]_vars

\* ----------------------------------------------------------------------
\* C16 (as claimed): in autotrader.py the trend tracker is updated from the
\* event's snapshot before the quotes are priced: the prices inserted for
\* event n are the ones the pricing gives on the trend state derived from
\* snapshot n (with the trend term as the code computes it or as signed).
C16_QuotesUseTheNewTrendState ==
    [][\A b \in DOMAIN Books :
          (policy = "A" /\ ev' = Event("book", "future") /\ BookEvent(b))
          => LET spread == Spread(Books[b])
                 fair0 == FairPrice(Books[b], position)
                 f1 == TrendAdjusted(fair0, spread, trading_volume', price_trend')
                 f2 == fair0 + SignedTrendTerm(spread, trading_volume', price_trend')
             IN /\ \A c \in Inserts(out', Side_BUY) :
                       c.price \in {ToInt(BidPrice(f1, spread)),
                                    ToInt(BidPrice(f2, spread))}
                /\ \A c \in Inserts(out', Side_SELL) :
                       c.price \in {ToInt(AskPrice(f1, spread)),
                                    ToInt(AskPrice(f2, spread))}]_vars

\* C16 (amended): in autotrader.py the quotes of event n are priced on the
\* trend state left by event n-1 (trading_volume and price_trend as they are
\* when the event arrives; no trend term on the first event), and the
\* tracker takes snapshot n's volume in the same event, after the pricing.
C16_QuotesUseThePreviousTrendState ==
    [][\A b \in DOMAIN Books :
          (policy = "A" /\ ev' = Event("book", "future") /\ BookEvent(b))
          => LET spread == Spread(Books[b])
                 fair_price == TrendAdjusted(FairPrice(Books[b], position), spread,
                                             trading_volume, price_trend)
             IN /\ \A c \in Inserts(out', Side_BUY) :
                       /\ c.price = ToInt(BidPrice(fair_price, spread))
                       /\ bid_price' = BidPrice(fair_price, spread)
                /\ \A c \in Inserts(out', Side_SELL) :
                       /\ c.price = ToInt(AskPrice(fair_price, spread))
                       /\ ask_price' = AskPrice(fair_price, spread)
                /\ NoBookSeenYet =>
                       /\ \A c \in Inserts(out', Side_BUY) :
                              c.price = ToInt(BidPrice(FairPrice(Books[b], position), spread))
                       /\ \A c \in Inserts(out', Side_SELL) :
                              c.price = ToInt(AskPrice(FairPrice(Books[b], position), spread))
                /\ trading_volume' = TopVolume(b)]_vars

\* C16 witness: after a first snapshot with volume 6, the 10000/10002
\* snapshot with volume 20 arrived: the tracker now says rising (+1, 20) but
\* the bid was priced on the state before it (0, 6), at 9900 and not 10000.
C16_Witness ==
    /\ policy = "A"
    /\ ev = Event("book", "future")
    /\ trading_volume = F(20) /\ price_trend = 1
    /\ position = 0
    /\ \E c \in Inserts(out, Side_BUY) : c.price = 9900

\* ----------------------------------------------------------------------
\* C17: position is changed only by the fill handler: order-book events (for
\* any instrument), status, error, hedge-filled and trade-tick events leave
\* it unchanged, in both variants.
C17_OnlyFillsMovePosition ==
    [][/\ ev'.kind \in {"book", "status", "error", "hedge_filled", "trade_ticks"}
              => position' = position
       /\ position' # position => ev'.kind = "fill"]_vars

\* C17 witness: with position 60, a terminal status event has retired an
\* outstanding order and left the position alone.
C17_Witness ==
    /\ ev = Event("status", "outstanding")
    /\ position = 60

\* ----------------------------------------------------------------------
\* C18: in every reachable state of both variants a non-zero active-bid slot
\* id is in the outstanding bid set, a non-zero active-ask slot id is in the
\* outstanding ask set, the two sets are disjoint, and bid_id # ask_id
\* whenever either is non-zero.
C18_LedgerConsistent ==
    /\ bid_id # 0 => bid_id \in Keys(bids)
    /\ ask_id # 0 => ask_id \in Keys(asks)
    /\ Keys(bids) \cap Keys(asks) = {}
    /\ (bid_id # 0 \/ ask_id # 0) => bid_id # ask_id

\* C18 witness: both slots are set while a cancelled ask is still outstanding
\* beside the active one.
C18_Witness ==
    /\ bid_id # 0 /\ ask_id # 0
    /\ Cardinality(Keys(asks)) = 2
    /\ \E o \in Keys(asks) \cap cancel_requested : o # ask_id

\* ----------------------------------------------------------------------
RECURSIVE SumLive(_)
\* the unfilled remainder, at the venue, of the orders ks
SumLive(ks) ==
    IF ks = {} THEN 0
    ELSE LET k == CHOOSE x \in ks : TRUE
         IN (IF k \in DOMAIN live THEN live[k] ELSE 0) + SumLive(ks \ {k})

\* C19: policy B, against a venue that fills an order for at most its
\* requested size in total and sends no fill after the order's terminal
\* status: in every reachable state position plus the unfilled remainder of
\* the outstanding bids is at most POSITION_LIMIT, position minus the unfilled
\* remainder of the outstanding asks is at least -POSITION_LIMIT, and the clamp
\* branch of the fill handler has not been taken.
C19_ExposureWithinLimit ==
    /\ position + SumLive(Keys(bids)) <= POSITION_LIMIT
    /\ position - SumLive(Keys(asks)) >= -POSITION_LIMIT
    /\ ev # Event("fill", "breach")

\* C19 witness: after a fill, a book event has inserted a bid that the
\* capacity term cut below the size cap, while two cancelled bids that the
\* venue has not confirmed are still live beside it, and the exposure is
\* exactly the limit.
C19_Witness ==
    /\ ev = Event("book", "future")
    /\ position > 0
    /\ \E c \in Inserts(out, Side_BUY) : 1 <= c.volume /\ c.volume < SIZE_CAP
    /\ Cardinality({k \in Keys(bids) \cap cancel_requested : live[k] > 0}) >= 2
    /\ position + SumLive(Keys(bids)) = POSITION_LIMIT

\* ----------------------------------------------------------------------
\* C20: policy A, against a venue that fills an order for at most its
\* requested size and sends no fill after the order's terminal status: in
\* every reachable state the tracked position equals the net filled volume,
\* the fills on bids minus the fills on asks.
C20_PositionIsNetFilled == position = net_filled

====
